---- MODULE Spec2Model ----
(***************************************************************************)
(* Model of src/app.py (Painel Olympo, Flask).                             *)
(*                                                                         *)
(* Two request handlers are modelled as whole actions of a single-threaded *)
(* server:                                                                 *)
(*   classificacao()  POST/GET /classificacao  (weighted rubric, forced    *)
(*                    rules, webhook posts)                                *)
(*   index()          GET /  (fetch_data, prepare_dataframes, filters,     *)
(*                    KPIs, build_fig2)                                    *)
(*                                                                         *)
(* Strings of the source that carry accents are written without them       *)
(* ("Nao Apto" for "Não Apto", "Mes" for "Mês", "Ticket Medio", ...): the  *)
(* program only compares these strings for equality.                       *)
(* The remote webhooks are taken to answer normally; what they return is   *)
(* not modelled, only the requests sent to them.                           *)
(***************************************************************************)
EXTENDS Integers, Sequences, FiniteSets, TLC

VARIABLES
    pc,         \* "idle": waiting for a request; "done": a response was built
    request,    \* the request being served: route, method, form / query / webhook data
    response,   \* what the handler returned (template and its arguments, or an error)
    posts,      \* webhook requests sent by the handler, in order
    locals      \* local variables of the handler when it ended

vars == <<pc, request, response, posts, locals>>

\* Python's None (request.form.get of an absent field, JSON null).
None == "None"

\* pandas' missing value in a numeric column: a number is [n, d], the
\* fraction n/d in lowest terms with d > 0, and NaN is 0/0.
NaN == [n |-> 0, d |-> 0]

\* A missing value where a text is expected.  A text is a sequence of
\* characters; this one is none, its only element being no character.
NoText == << "None" >>

RangeOf(s) == {s[i] : i \in 1..Len(s)}

(***************************************************************************)
(* classificacao(): the rubric                                             *)
(***************************************************************************)

\* Keys of `criterios` in declaration order (dict iteration order).
CriterioOrder ==
    << "Faturamento", "Ticket Medio", "Step", "Empresa Familiar",
       "Tempo de Mercado", "Ebitda",
       "Aderencia do Cliente ao Modelo Variavel",
       "Projeto tem CRM sendo utilizado a mais de 1 ano?",
       "Projeto tem inteligencia de dados de funil comercial?",
       "Health Score" >>

Criterios == RangeOf(CriterioOrder)

criterios ==
    [c \in Criterios |->
        CASE c = "Faturamento" ->
               << "0 a 69mil", "70mil a 100mil", "101mil a 200mil",
                  "201mil a 400mil", "401mil a 1mm", "1mm a 2mm", "2mm a 4mm",
                  "5mm a 16mm", "17mm a 40mm", "Acima de 40mm" >>
          [] c = "Ticket Medio" ->
               << "Ate R$2.000", "Entre R$2.000 e R$20.0000", "Acima de R$20.000" >>
          [] c = "Step" -> << "V0", "V1", "V2", "V3", "V4" >>
          [] c = "Empresa Familiar" -> << "Sim", "Nao" >>
          [] c = "Tempo de Mercado" -> << "Novo", "1-2 anos", "2-5 anos", "5+ anos" >>
          [] c = "Ebitda" ->
               << "0% a 10%", "11% a 20%", "21% a 30%", "31% a 40%",
                  "51% a 60%", "61% a 70%", "81% a 90%", "91% a 100%" >>
          [] c = "Aderencia do Cliente ao Modelo Variavel" -> << "Baixo", "Medio", "Alto" >>
          [] c = "Projeto tem CRM sendo utilizado a mais de 1 ano?" -> << "Nao", "Sim" >>
          [] c = "Projeto tem inteligencia de dados de funil comercial?" -> << "Nao", "Sim" >>
          [] c = "Health Score" ->
               << "Novo Cliente", "Aviso Previo", "Danger", "Care", "Safe" >> ]

pesos ==
    [c \in Criterios |->
        CASE c = "Faturamento" -> 2
          [] c = "Ticket Medio" -> 2
          [] c = "Step" -> 3
          [] c = "Empresa Familiar" -> 2
          [] c = "Tempo de Mercado" -> 1
          [] c = "Ebitda" -> 3
          [] c = "Aderencia do Cliente ao Modelo Variavel" -> 3
          [] c = "Projeto tem CRM sendo utilizado a mais de 1 ano?" -> 3
          [] c = "Projeto tem inteligencia de dados de funil comercial?" -> 3
          [] c = "Health Score" -> 2 ]

\* Keys of `regras_forcadas` in declaration order: the order of the loop
\* "for criterio, regras in regras_forcadas.items()".
RegrasOrderInvertida == << "Ebitda", "Step" >>

RegrasOrder == << "Step", "Ebitda" >>

\* The table with the verdict of Ebitda "11% a 20%" mistyped.
regras_forcadas_trocada(criterio) ==
    CASE criterio = "Step" -> { <<"V0", "Nao Apto">>, <<"V1", "Revisar">> }
      [] criterio = "Ebitda" -> { <<"0% a 10%", "Nao Apto">>, <<"11% a 20%", "Nao Apto">> }
      [] OTHER -> {}

\* regras_forcadas[criterio], as a set of <<option, verdict>> pairs.
regras_forcadas(criterio) ==
    CASE criterio = "Step" -> { <<"V0", "Nao Apto">>, <<"V1", "Revisar">> }
      [] criterio = "Ebitda" -> { <<"0% a 10%", "Nao Apto">>, <<"11% a 20%", "Revisar">> }
      [] OTHER -> {}

\* "resposta in regras"
InRegras(resposta, criterio) ==
    \E r \in regras_forcadas(criterio) : r[1] = resposta

\* "regras[resposta]"
RegraDe(resposta, criterio) ==
    (CHOOSE r \in regras_forcadas(criterio) : r[1] = resposta)[2]

(***************************************************************************)
(* Python float arithmetic of "pontuacao = (pontos / pontos_maximos) * 100"*)
(* and "pontuacao >= 70": IEEE 754 binary64, round to nearest, ties to     *)
(* even.  A positive float is [e, m]: m is the significand as Precision    *)
(* bits, most significant first, m[1] = 1, and the value is                *)
(* 1.m[2]m[3]... * 2^e.  Zero is FloatZero.  The operands here are far     *)
(* from the overflow and subnormal ranges.                                 *)
(***************************************************************************)

\* Significand width of a Python float.
Precision == 53

FloatZero == [zero |-> TRUE]

RECURSIVE Pow2(_)
Pow2(n) == IF n = 0 THEN 1 ELSE 2 * Pow2(n - 1)

\* Number of bits of n > 0.
RECURSIVE BitLength(_)
BitLength(n) == IF n <= 1 THEN 1 ELSE 1 + BitLength(n \div 2)

\* The bits of n > 0, most significant first.
RECURSIVE IntBits(_)
IntBits(n) == IF n <= 1 THEN <<n>> ELSE Append(IntBits(n \div 2), n % 2)

\* Adds one unit in the last place to the bits m[1..i] (carry from the right).
RECURSIVE IncAt(_, _)
IncAt(m, i) ==
    IF i = 0 THEN m
    ELSE IF m[i] = 0 THEN [m EXCEPT ![i] = 1]
    ELSE IncAt([m EXCEPT ![i] = 0], i - 1)

\* Round to nearest, ties to even: `top` are the kept bits (exponent e),
\* `up` says the dropped part is above one half, `half` that it is exactly
\* one half.
RoundNearestEven(e, top, up, half) ==
    IF up \/ (half /\ top[Len(top)] = 1)
    THEN LET inc == IncAt(top, Len(top))
         IN  IF inc[1] = 0
             THEN [e |-> e + 1, m |-> [inc EXCEPT ![1] = 1]]
             ELSE [e |-> e, m |-> inc]
    ELSE [e |-> e, m |-> top]

\* Long division: appends to `bits` the next n quotient bits of r/b
\* (0 <= r < b) and gives the remainder left.
RECURSIVE DivBits(_, _, _, _)
DivBits(r, b, n, bits) ==
    IF n = 0 THEN [bits |-> bits, rem |-> r]
    ELSE IF 2 * r >= b
         THEN DivBits(2 * r - b, b, n - 1, Append(bits, 1))
         ELSE DivBits(2 * r, b, n - 1, Append(bits, 0))

\* p / q for ints p >= 0, q > 0 (true division, correctly rounded).
FloatDiv(p, q) ==
    IF p = 0 THEN FloatZero
    ELSE LET up == IF p >= q
                   THEN CHOOSE k \in 0..BitLength(p) :
                            q * Pow2(k) <= p /\ p < q * Pow2(k + 1)
                   ELSE 0
             down == IF p < q
                     THEN CHOOSE k \in 1..BitLength(q) :
                            p * Pow2(k) >= q /\ p * Pow2(k - 1) < q
                     ELSE 0
             a == p * Pow2(down)
             b == q * Pow2(up)
             d == DivBits(a - b, b, Precision - 1, <<1>>)
         IN  RoundNearestEven(up - down, d.bits,
                              2 * d.rem > b, 2 * d.rem = b)

\* The bits m (most significant first) times the int k, from the right:
\* the low Len(m) bits of the product and the carry out of them.
RECURSIVE MulBits(_, _, _, _)
MulBits(m, k, i, carry) ==
    IF i = 0 THEN [low |-> m, high |-> carry]
    ELSE LET t == m[i] * k + carry
         IN  MulBits([m EXCEPT ![i] = t % 2], k, i - 1, t \div 2)

\* x * k for a float x >= 0 and an int k >= 2.
FloatMulInt(x, k) ==
    IF "zero" \in DOMAIN x THEN FloatZero
    ELSE LET prod == MulBits(x.m, k, Precision, 0)
             h    == BitLength(prod.high)
             all  == IntBits(prod.high) \o prod.low
             top  == SubSeq(all, 1, Precision)
             rnd  == all[Precision + 1]
             tail == \E j \in (Precision + 2)..Len(all) : all[j] = 1
         IN  RoundNearestEven(x.e + h, top, rnd = 1 /\ tail, rnd = 1 /\ ~tail)

\* The float of the int t > 0 (exact below 2^Precision).
FloatOfInt(t) ==
    [e |-> BitLength(t) - 1,
     m |-> IntBits(t) \o [i \in 1..(Precision - BitLength(t)) |-> 0]]

\* Bits a >= bits b, as binary numbers of equal length.
RECURSIVE BitsGE(_, _, _)
BitsGE(a, b, i) ==
    IF i > Len(a) THEN TRUE
    ELSE IF a[i] # b[i] THEN a[i] > b[i]
    ELSE BitsGE(a, b, i + 1)

\* "x >= t" for a float x >= 0 and an int t > 0.
FloatGE(x, t) ==
    IF "zero" \in DOMAIN x THEN FALSE
    ELSE LET y == FloatOfInt(t)
         IN  IF x.e # y.e THEN x.e > y.e ELSE BitsGE(x.m, y.m, 1)

(***************************************************************************)
(* classificacao(): the POST branch                                        *)
(***************************************************************************)

URL_ANALISE == "https://n8n.v4lisboatech.com.br/webhook/analise/cliente-variavel"

URL_REGISTRAR == "https://n8n.v4lisboatech.com.br/webhook/analise/registrar-forms"

\* "resposta in opcoes": False makes opcoes.index(resposta) raise ValueError.
HasIndex(opcoes, resposta) ==
    \E i \in 1..Len(opcoes) : opcoes[i] = resposta

\* "opcoes.index(resposta)": the 0-based position of the first occurrence.
IndexOf(opcoes, resposta) ==
    (CHOOSE i \in 1..Len(opcoes) :
        /\ opcoes[i] = resposta
        /\ \A j \in 1..(i - 1) : opcoes[j] # resposta) - 1

\* The loop "for criterio, regras in regras_forcadas.items()" from position
\* i of `ordem`: the first criterion whose answer is a key of its rules, or
\* None when the loop ends without returning.
RECURSIVE RegraForcada(_, _, _)
RegraForcada(respostas, ordem, i) ==
    IF i > Len(ordem) THEN None
    ELSE IF InRegras(respostas[ordem[i]], ordem[i])
         THEN RegraDe(respostas[ordem[i]], ordem[i])
         ELSE RegraForcada(respostas, ordem, i + 1)

\* The scoring loop with an answer outside the list skipped instead of
\* raising.
RECURSIVE PontuarIgnorando(_, _, _, _)
PontuarIgnorando(respostas, i, pontos, pontos_maximos) ==
    IF i > Len(CriterioOrder)
    THEN [erro |-> None, pontos |-> pontos, pontos_maximos |-> pontos_maximos]
    ELSE LET criterio == CriterioOrder[i]
             opcoes   == criterios[criterio]
         IN  IF ~HasIndex(opcoes, respostas[criterio])
             THEN PontuarIgnorando(respostas, i + 1, pontos,
                                   pontos_maximos + (Len(opcoes) - 1) * pesos[criterio])
             ELSE PontuarIgnorando(respostas, i + 1,
                          pontos + IndexOf(opcoes, respostas[criterio]) * pesos[criterio],
                          pontos_maximos + (Len(opcoes) - 1) * pesos[criterio])

\* The scoring loop with the maximum taken as len(opcoes) * peso.
RECURSIVE PontuarLen(_, _, _, _)
PontuarLen(respostas, i, pontos, pontos_maximos) ==
    IF i > Len(CriterioOrder)
    THEN [erro |-> None, pontos |-> pontos, pontos_maximos |-> pontos_maximos]
    ELSE LET criterio == CriterioOrder[i]
             opcoes   == criterios[criterio]
         IN  IF ~HasIndex(opcoes, respostas[criterio])
             THEN [erro |-> "ValueError", pontos |-> pontos,
                   pontos_maximos |-> pontos_maximos]
             ELSE PontuarLen(respostas, i + 1,
                          pontos + IndexOf(opcoes, respostas[criterio]) * pesos[criterio],
                          pontos_maximos + Len(opcoes) * pesos[criterio])

\* The loop "for criterio, opcoes in criterios.items()" from position i of
\* CriterioOrder with the running totals: it raises ValueError at the first
\* answer that is not in its criterion's list.
RECURSIVE Pontuar(_, _, _, _)
Pontuar(respostas, i, pontos, pontos_maximos) ==
    IF i > Len(CriterioOrder)
    THEN [erro |-> None, pontos |-> pontos, pontos_maximos |-> pontos_maximos]
    ELSE LET criterio == CriterioOrder[i]
             opcoes   == criterios[criterio]
         IN  IF ~HasIndex(opcoes, respostas[criterio])
             THEN [erro |-> "ValueError", pontos |-> pontos,
                   pontos_maximos |-> pontos_maximos]
             ELSE Pontuar(respostas, i + 1,
                          pontos + IndexOf(opcoes, respostas[criterio]) * pesos[criterio],
                          pontos_maximos + (Len(opcoes) - 1) * pesos[criterio])

\* Lower limits of the bands "Apto" and "Revisar" on the 0-100 scale.
LimiteApto == 70

LimiteRevisar == 40

\* "pontuacao = (pontos / pontos_maximos) * 100", pontos_maximos > 0.
Pontuacao(pontos, pontos_maximos) ==
    FloatMulInt(FloatDiv(pontos, pontos_maximos), 100)

\* The same chain with ">" for ">=".
ResultadoEstrito(pontuacao) ==
    IF FloatGE(pontuacao, LimiteApto) /\ pontuacao # FloatOfInt(LimiteApto)
    THEN "Apto"
    ELSE IF FloatGE(pontuacao, LimiteRevisar) /\ pontuacao # FloatOfInt(LimiteRevisar)
    THEN "Revisar"
    ELSE "Nao Apto"

\* "if pontuacao >= 70 ... elif pontuacao >= 40 ... else ..."
Resultado(pontuacao) ==
    IF FloatGE(pontuacao, LimiteApto) THEN "Apto"
    ELSE IF FloatGE(pontuacao, LimiteRevisar) THEN "Revisar"
    ELSE "Nao Apto"

\* What the POST branch computes from the answers, with the forced rules
\* evaluated in the order `ordem`:
\*   via "regra"  : a forced rule returned (pontos = "Forcado por regra")
\*   via "pontos" : the weighted score decided
\*   via "erro"   : an exception left the handler (no template rendered)
Classificar(respostas, ordem) ==
    LET forcado == RegraForcada(respostas, ordem, 1)
    IN  IF forcado # None
        THEN [via |-> "regra", resultado |-> forcado, pontos |-> "Forcado por regra",
              locals |-> [resultado |-> forcado]]
        ELSE LET p == Pontuar(respostas, 1, 0, 0)
             IN  IF p.erro # None
                 THEN [via |-> "erro", resultado |-> None, pontos |-> p.erro,
                       locals |-> [pontos |-> p.pontos,
                                   pontos_maximos |-> p.pontos_maximos]]
                 ELSE IF p.pontos_maximos = 0
                 THEN [via |-> "erro", resultado |-> None,
                       pontos |-> "ZeroDivisionError",
                       locals |-> [pontos |-> p.pontos,
                                   pontos_maximos |-> p.pontos_maximos]]
                 ELSE LET pontuacao == Pontuacao(p.pontos, p.pontos_maximos)
                      IN  [via |-> "pontos",
                           resultado |-> Resultado(pontuacao),
                           pontos |-> p.pontos,
                           locals |-> [pontos |-> p.pontos,
                                       pontos_maximos |-> p.pontos_maximos,
                                       pontuacao |-> pontuacao,
                                       resultado |-> Resultado(pontuacao)]]

NoLocals == [none |-> TRUE]

NoResponse == [status |-> "none"]

\* The POST handler with the registration request sent ahead of the
\* analysis request.
ClassificacaoPostRegistroAntes(form) ==
    /\ pc = "idle"
    /\ LET respostas == form
           analise   == [url |-> URL_ANALISE, json |-> respostas]
           c         == Classificar(respostas, RegrasOrder)
           registro  == [url |-> URL_REGISTRAR,
                         json |-> [k \in DOMAIN respostas \cup {"resultado"} |->
                                     IF k = "resultado" THEN c.resultado
                                     ELSE respostas[k]]]
       IN  /\ request' = [route |-> "/classificacao", method |-> "POST", form |-> form]
           /\ locals' = c.locals
           /\ IF c.via = "erro"
              THEN /\ posts' = <<analise>>
                   /\ response' = [status |-> "error", error |-> c.pontos]
              ELSE /\ posts' = <<registro, analise>>
                   /\ response' = [status |-> "ok",
                                   template |-> "resultado_classificacao.html",
                                   respostas |-> registro.json,
                                   resultado |-> c.resultado,
                                   pontos |-> c.pontos]
    /\ pc' = "done"

\* The handler for POST /classificacao, as a whole.  `form` is request.form:
\* one value per criterion, None for an absent field ("Nome do Cliente",
\* which no step reads, is left out).  The analysis request is posted first; then either a forced rule or the score gives `resultado`,
\* which is added to `respostas`, posted to the registration webhook and
\* rendered; or the exception of opcoes.index ends the request.
ClassificacaoPost(form) ==
    /\ pc = "idle"
    /\ LET respostas == form
           analise   == [url |-> URL_ANALISE, json |-> respostas]
           c         == Classificar(respostas, RegrasOrder)
           registro  == [url |-> URL_REGISTRAR,
                         json |-> [k \in DOMAIN respostas \cup {"resultado"} |->
                                     IF k = "resultado" THEN c.resultado
                                     ELSE respostas[k]]]
       IN  /\ request' = [route |-> "/classificacao", method |-> "POST", form |-> form]
           /\ locals' = c.locals
           /\ IF c.via = "erro"
              THEN /\ posts' = <<analise>>
                   /\ response' = [status |-> "error", error |-> c.pontos]
              ELSE /\ posts' = <<analise, registro>>
                   /\ response' = [status |-> "ok",
                                   template |-> "resultado_classificacao.html",
                                   respostas |-> registro.json,
                                   resultado |-> c.resultado,
                                   pontos |-> c.pontos]
    /\ pc' = "done"

\* GET /classificacao renders the form.
ClassificacaoGet ==
    /\ pc = "idle"
    /\ request' = [route |-> "/classificacao", method |-> "GET"]
    /\ posts' = << >>
    /\ locals' = NoLocals
    /\ response' = [status |-> "ok", template |-> "classificacao_form.html"]
    /\ pc' = "done"

\* The response is sent; the server waits for the next request.
Return ==
    /\ pc = "done"
    /\ pc' = "idle"
    /\ request' = [route |-> "none"]
    /\ response' = NoResponse
    /\ posts' = << >>
    /\ locals' = NoLocals

(***************************************************************************)
(* Submitted forms                                                         *)
(***************************************************************************)

\* Number of fields in which a submitted form differs from a profile.
MaxChanged == 2

\* A value that is in no criterion's option list.
ForaDoCatalogo == "Outro"

\* What a field of the form can carry.
Valores(criterio) == RangeOf(criterios[criterio]) \cup {None, ForaDoCatalogo}

\* Every criterion at its highest option.
PerfilAlto == [c \in Criterios |-> criterios[c][Len(criterios[c])]]

\* Every criterion at its lowest option.
PerfilBaixo == [c \in Criterios |-> criterios[c][1]]

\* Every criterion at its lowest option that is no key of a forced rule.
PerfilBaixoSemRegra ==
    [c \in Criterios |->
        criterios[c][CHOOSE i \in 1..Len(criterios[c]) :
                        /\ ~InRegras(criterios[c][i], c)
                        /\ \A j \in 1..(i - 1) : InRegras(criterios[c][j], c)]]

Perfis == {PerfilAlto, PerfilBaixo, PerfilBaixoSemRegra}

\* A POST whose form is `form` with at most k of the fields
\* CriterioOrder[i..] changed to another value: the choice of the submitted
\* form, field by field, followed by the handler.
RECURSIVE PostAlterado(_, _, _)
PostAlterado(form, i, k) ==
    IF i > Len(CriterioOrder) \/ k = 0 THEN ClassificacaoPost(form)
    ELSE \/ PostAlterado(form, i + 1, k)
         \/ \E v \in Valores(CriterioOrder[i]) \ {form[CriterioOrder[i]]} :
               PostAlterado([form EXCEPT ![CriterioOrder[i]] = v], i + 1, k - 1)

\* POST /classificacao with any form that differs from a profile in at most
\* MaxChanged fields.
PostClassificacao ==
    /\ pc = "idle"
    /\ \E perfil \in Perfis : PostAlterado(perfil, 1, MaxChanged)

(***************************************************************************)
(* Numbers.  Python floats that carry amounts are modelled by their exact  *)
(* value, a fraction in lowest terms; the amounts of the modelled inputs   *)
(* and their sums are integers, which binary64 holds exactly.              *)
(***************************************************************************)

Abs(x) == IF x < 0 THEN -x ELSE x

RECURSIVE GCD(_, _)
GCD(a, b) == IF b = 0 THEN a ELSE GCD(b, a % b)

\* n/d in lowest terms, d > 0.
Rat(n, d) ==
    LET g == GCD(Abs(n), d)
    IN  [n |-> IF n < 0 THEN -(Abs(n) \div g) ELSE n \div g, d |-> d \div g]

Zero == Rat(0, 1)

RatAdd(a, b) == Rat(a.n * b.d + b.n * a.d, a.d * b.d)

\* a / k for an int k > 0.
RatDivInt(a, k) == Rat(a.n, a.d * k)

RECURSIVE Pow10(_)
Pow10(n) == IF n = 0 THEN 1 ELSE 10 * Pow10(n - 1)

(***************************************************************************)
(* parse_number                                                            *)
(***************************************************************************)

Digits == << "0", "1", "2", "3", "4", "5", "6", "7", "8", "9" >>

IsDigit(ch) == \E i \in 1..Len(Digits) : Digits[i] = ch

DigitVal(ch) == (CHOOSE i \in 1..Len(Digits) : Digits[i] = ch) - 1

IsSpace(ch) == ch = " "

\* str.strip(): leading and trailing whitespace removed.
RECURSIVE Strip(_)
Strip(x) ==
    IF Len(x) = 0 THEN x
    ELSE IF IsSpace(x[1]) THEN Strip(Tail(x))
    ELSE IF IsSpace(x[Len(x)]) THEN Strip(SubSeq(x, 1, Len(x) - 1))
    ELSE x

\* re.sub(r"[^\d,.-]", "", x)
KeepNumeric(x) ==
    LET Keep(ch) == IsDigit(ch) \/ ch = "," \/ ch = "." \/ ch = "-"
    IN  SelectSeq(x, Keep)

\* x.count(ch)
Count(x, ch) == Cardinality({i \in 1..Len(x) : x[i] = ch})

\* x.rfind(ch): 0-based position of the last occurrence, -1 when absent.
RFind(x, ch) ==
    IF \E i \in 1..Len(x) : x[i] = ch
    THEN (CHOOSE i \in 1..Len(x) : x[i] = ch /\ \A j \in (i + 1)..Len(x) : x[j] # ch) - 1
    ELSE -1

\* x.replace(ch, "")
Remove(x, ch) ==
    LET Other(c) == c # ch
    IN  SelectSeq(x, Other)

\* x.replace(old, new) for single characters
Replace(x, old, new) == [i \in 1..Len(x) |-> IF x[i] = old THEN new ELSE x[i]]

\* The decimal value of a sequence of digits (0 for the empty one).
RECURSIVE DecVal(_)
DecVal(ds) ==
    IF Len(ds) = 0 THEN 0
    ELSE 10 * DecVal(SubSeq(ds, 1, Len(ds) - 1)) + DigitVal(ds[Len(ds)])

\* float(x) for a text of digits, "." and "-" (all that KeepNumeric and the
\* replacements leave): an optional leading "-", then digits with at most
\* one "." and at least one digit.  ok = FALSE stands for ValueError.
Float(x) ==
    LET neg  == Len(x) > 0 /\ x[1] = "-"
        body == IF neg THEN Tail(x) ELSE x
        ok   == /\ \A i \in 1..Len(body) : IsDigit(body[i]) \/ body[i] = "."
                /\ Count(body, ".") <= 1
                /\ \E i \in 1..Len(body) : IsDigit(body[i])
        frac == IF Count(body, ".") = 1 THEN Len(body) - (RFind(body, ".") + 1) ELSE 0
        n    == DecVal(Remove(body, "."))
    IN  IF ok THEN [ok |-> TRUE, val |-> Rat(IF neg THEN -n ELSE n, Pow10(frac))]
        ELSE [ok |-> FALSE, val |-> Zero]

\* parse_number taking "," for the decimal point only when a "." precedes
\* it.
parse_number_com_ponto(x) ==
    IF x = NoText THEN Zero
    ELSE LET t == KeepNumeric(Strip(x))
             u == IF Count(t, ",") = 1 /\ RFind(t, ",") > RFind(t, ".") /\ RFind(t, ".") >= 0
                  THEN Replace(Remove(t, "."), ",", ".")
                  ELSE Remove(t, ",")
         IN  IF Float(u).ok THEN Float(u).val ELSE Zero

\* parse_number(x): pd.isna(x) gives 0.0; otherwise the text is stripped and
\* cleaned, its separators are settled, and float() is tried, ValueError
\* giving 0.0.
parse_number(x) ==
    IF x = NoText THEN Zero
    ELSE LET t == KeepNumeric(Strip(x))
             u == IF Count(t, ",") = 1 /\ RFind(t, ",") > RFind(t, ".")
                  THEN Replace(Remove(t, "."), ",", ".")
                  ELSE Remove(t, ",")
         IN  IF Float(u).ok THEN Float(u).val ELSE Zero

(***************************************************************************)
(* fetch_data and prepare_dataframes.  A DataFrame is [columns, rows]:     *)
(* the set of column names and the sequence of rows, each row a function   *)
(* from the column names to cells.  Column names are written without       *)
(* accents or blanks ("Mes", "ValorVariavel", "TicketMedio",              *)
(* "QtdEventos", "ValorFixo"), so that rows are TLA+ records.              *)
(***************************************************************************)

ORDEM_MESES ==
    << "Janeiro", "Fevereiro", "Marco", "Abril", "Maio", "Junho", "Julho",
       "Agosto", "Setembro", "Outubro", "Novembro", "Dezembro" >>

\* The client names of the modelled inputs and the month names, in the
\* order of Python's string comparison (the order of groupby's sorted keys).
OrdemLexicografica ==
    << "A", "Abril", "Agosto", "B", "Dezembro", "Fevereiro", "Janeiro",
       "Julho", "Junho", "Maio", "Marco", "Novembro", "Outubro", "Setembro" >>

Rank(seq, v) == CHOOSE i \in 1..Len(seq) : seq[i] = v

\* pd.DataFrame(list of dicts): the columns are the keys of the records.
\* Every record of the modelled inputs carries every key, so no cell has to
\* be filled in; the empty list gives a frame without columns.
DataFrame(lista) ==
    [columns |-> UNION {DOMAIN lista[i] : i \in 1..Len(lista)}, rows |-> lista]

\* Row r with column col set to v (added when absent).
WithColumn(r, col, v) ==
    [c \in DOMAIN r \cup {col} |-> IF c = col THEN v ELSE r[c]]

\* 'if col in df.columns: df[col] = df[col].apply(parse_number)
\*  else: df[col] = 0.0'
ParseColumn(df, col) ==
    [columns |-> df.columns \cup {col},
     rows |-> [i \in 1..Len(df.rows) |->
                 IF col \in df.columns
                 THEN WithColumn(df.rows[i], col, parse_number(df.rows[i][col]))
                 ELSE WithColumn(df.rows[i], col, Zero)]]

\* Sum of f over the rows, NaN skipped (pandas sum, skipna).
RECURSIVE SumOver(_, _)
SumOver(rows, col) ==
    IF Len(rows) = 0 THEN Zero
    ELSE LET rest == SumOver(SubSeq(rows, 1, Len(rows) - 1), col)
             v    == rows[Len(rows)][col]
         IN  IF v = NaN THEN rest ELSE RatAdd(rest, v)

\* Python's order of two (Cliente, Mes) keys: by the first component, then
\* by the second.
KeyLE(a, b) ==
    \/ Rank(OrdemLexicografica, a[1]) < Rank(OrdemLexicografica, b[1])
    \/ /\ a[1] = b[1]
       /\ Rank(OrdemLexicografica, a[2]) <= Rank(OrdemLexicografica, b[2])

LeastKey(keys) == CHOOSE a \in keys : \A b \in keys : KeyLE(a, b)

\* The keys of a set of groups in sorted order.
RECURSIVE SortedKeys(_)
SortedKeys(keys) ==
    IF keys = {} THEN << >>
    ELSE <<LeastKey(keys)>> \o SortedKeys(keys \ {LeastKey(keys)})

\* "Registro": "count": the number of cells of the group that are not
\* missing.
GroupCount(rows) ==
    LET Present(r) == r["Registro"] # None
    IN  Len(SelectSeq(rows, Present))

\* df_var.groupby(["Cliente", "Mes"], as_index=False)
\*       .agg({"ValorVariavel": "sum", "Registro": "count"})
\* Rows whose key is missing are dropped (dropna); the groups come sorted
\* by key.
GroupByClienteMes(df) ==
    LET HasKey(r) == r["Cliente"] # None /\ r["Mes"] # None
        rows == SelectSeq(df.rows, HasKey)
        keys == SortedKeys({<<rows[i]["Cliente"], rows[i]["Mes"]>> : i \in 1..Len(rows)})
        Group(k) == LET In(r) == r["Cliente"] = k[1] /\ r["Mes"] = k[2]
                    IN  SelectSeq(rows, In)
    IN  [i \in 1..Len(keys) |->
            [ Cliente |-> keys[i][1],
              Mes |-> keys[i][2],
              ValorVariavel |-> SumOver(Group(keys[i]), "ValorVariavel"),
              Registro |-> GroupCount(Group(keys[i])) ]]

\* The rows of the left merge for one left row: one per fee row of the same
\* client, in the order of the fee rows; a single row with a missing
\* "ValorFixo" when there is none.
MergeRow(left, fixo_rows) ==
    LET Match(f) == f["Cliente"] = left["Cliente"]
        matches  == SelectSeq(fixo_rows, Match)
    IN  IF Len(matches) = 0
        THEN << WithColumn(left, "ValorFixo", NaN) >>
        ELSE [j \in 1..Len(matches) |->
                 WithColumn(left, "ValorFixo", matches[j]["ValorFixo"])]

\* df_var_grouped.merge(df_fixo, on="Cliente", how="left")
RECURSIVE Merge(_, _)
Merge(left_rows, fixo_rows) ==
    IF Len(left_rows) = 0 THEN << >>
    ELSE MergeRow(left_rows[1], fixo_rows) \o Merge(Tail(left_rows), fixo_rows)

\* 'lambda r: (r["ValorVariavel"] / r["Registro"]) if r["Registro"] else 0.0'
TicketMedio(r) ==
    IF r["Registro"] # 0 THEN RatDivInt(r["ValorVariavel"], r["Registro"]) ELSE Zero

\* pd.Categorical(df["Mes"], categories=ORDEM_MESES, ordered=True): a value
\* outside the categories becomes missing.
Categorical(mes) ==
    IF \E i \in 1..Len(ORDEM_MESES) : ORDEM_MESES[i] = mes THEN mes ELSE None

\* df.sort_values("Mes"): by position in ORDEM_MESES, missing last.  Rows of
\* the same month keep their order (numpy sorts the short arrays of the
\* modelled inputs by insertion).
RowsOfMes(rows, mes) ==
    LET Is(r) == r["Mes"] = mes
    IN  SelectSeq(rows, Is)

RECURSIVE SortByMes(_, _)
SortByMes(rows, i) ==
    IF i > Len(ORDEM_MESES) THEN RowsOfMes(rows, None)
    ELSE RowsOfMes(rows, ORDEM_MESES[i]) \o SortByMes(rows, i + 1)

\* df.rename(columns={"Registro": "QtdEventos"})
Rename(r) ==
    [c \in (DOMAIN r \ {"Registro"}) \cup {"QtdEventos"} |->
        IF c = "QtdEventos" THEN r["Registro"] ELSE r[c]]

\* prepare_dataframes(df_var, df_fixo): the rows of df_merged, or the
\* exception raised (erro # None).
prepare_dataframes(df_var, df_fixo) ==
    LET var  == ParseColumn(df_var, "ValorVariavel")
        fixo == ParseColumn(df_fixo, "ValorFixo")
    IN  IF "Cliente" \notin var.columns
        THEN [erro |-> "KeyError: 'Cliente'", rows |-> << >>]
        ELSE IF "Mes" \notin var.columns
        THEN [erro |-> "KeyError: 'Mes'", rows |-> << >>]
        ELSE IF "Registro" \notin var.columns
        THEN [erro |-> "KeyError: Column(s) ['Registro'] do not exist", rows |-> << >>]
        ELSE IF "Cliente" \notin fixo.columns
        THEN [erro |-> "KeyError: 'Cliente'", rows |-> << >>]
        ELSE LET merged == Merge(GroupByClienteMes(var), fixo.rows)
                 ticket == [i \in 1..Len(merged) |->
                              WithColumn(merged[i], "TicketMedio", TicketMedio(merged[i]))]
                 categ  == [i \in 1..Len(ticket) |->
                              WithColumn(ticket[i], "Mes", Categorical(ticket[i]["Mes"]))]
                 sorted == SortByMes(categ, 1)
             IN  [erro |-> None,
                  rows |-> [i \in 1..Len(sorted) |-> Rename(sorted[i])]]

(***************************************************************************)
(* index(): GET /                                                          *)
(***************************************************************************)

\* The distinct values of a set of names in sorted order.
Least(S) ==
    CHOOSE a \in S : \A b \in S :
        Rank(OrdemLexicografica, a) <= Rank(OrdemLexicografica, b)

RECURSIVE Sorted(_)
Sorted(S) ==
    IF S = {} THEN << >>
    ELSE <<Least(S)>> \o Sorted(S \ {Least(S)})

\* The rows of one client.
RowsOf(rows, cliente) ==
    LET Is(r) == r["Cliente"] = cliente
    IN  SelectSeq(rows, Is)

\* GroupBy.first(): the first value of the group that is not missing, NaN
\* when there is none.
First(rows, col) ==
    LET Present(r) == r[col] # NaN
        present == SelectSeq(rows, Present)
    IN  IF Len(present) = 0 THEN NaN ELSE present[1][col]

\* Sum of a sequence of numbers, NaN skipped.
RECURSIVE SumSeq(_)
SumSeq(vs) ==
    IF Len(vs) = 0 THEN Zero
    ELSE IF vs[Len(vs)] = NaN THEN SumSeq(SubSeq(vs, 1, Len(vs) - 1))
    ELSE RatAdd(SumSeq(SubSeq(vs, 1, Len(vs) - 1)), vs[Len(vs)])

RECURSIVE SumInt(_, _)
SumInt(rows, col) ==
    IF Len(rows) = 0 THEN 0
    ELSE SumInt(SubSeq(rows, 1, Len(rows) - 1), col) + rows[Len(rows)][col]

\* 'df_filtrado.groupby("Cliente")["ValorFixo"].first().sum()'
KpiValorFixo(df_filtrado) ==
    LET clientes == Sorted({df_filtrado[i]["Cliente"] : i \in 1..Len(df_filtrado)})
    IN  SumSeq([i \in 1..Len(clientes) |-> First(RowsOf(df_filtrado, clientes[i]), "ValorFixo")])

\* build_fig2: the series of the bar chart,
\* 'df_filtrado.groupby("Cliente", as_index=False)[["ValorVariavel", "ValorFixo"]].sum()'
build_fig2(df_filtrado) ==
    LET clientes == Sorted({df_filtrado[i]["Cliente"] : i \in 1..Len(df_filtrado)})
    IN  [clientes |-> clientes,
         valores_variaveis |->
            [i \in 1..Len(clientes) |-> SumOver(RowsOf(df_filtrado, clientes[i]), "ValorVariavel")],
         valores_fixos |->
            [i \in 1..Len(clientes) |-> SumOver(RowsOf(df_filtrado, clientes[i]), "ValorFixo")]]

\* 'all_clients = sorted(df_agrupado["Cliente"].unique().tolist())'
AllClients(df_agrupado) ==
    Sorted({df_agrupado[i]["Cliente"] : i \in 1..Len(df_agrupado)})

\* 'meses_disponiveis = [m for m in ORDEM_MESES if m in df_agrupado["Mes"].unique()]'
MesesDisponiveis(df_agrupado) ==
    LET InData(m) == \E i \in 1..Len(df_agrupado) : df_agrupado[i]["Mes"] = m
    IN  SelectSeq(ORDEM_MESES, InData)

\* 'if not selected: selected = all'
OrAll(selected, all) == IF selected = {} THEN RangeOf(all) ELSE selected

\* 'df_agrupado[df_agrupado["Cliente"].isin(selected_clients)
\*              & df_agrupado["Mes"].isin(selected_months)]'
Filtrar(df_agrupado, selected_clients, selected_months) ==
    LET Selected(r) == r["Cliente"] \in selected_clients /\ r["Mes"] \in selected_months
    IN  SelectSeq(df_agrupado, Selected)

\* df_filtrado of index() for the query values `clientes` and `meses`.
DfFiltrado(df_agrupado, clientes, meses) ==
    Filtrar(df_agrupado,
            OrAll(clientes, AllClients(df_agrupado)),
            OrAll(meses, MesesDisponiveis(df_agrupado)))

\* The arguments of render_template("index.html", ...).
IndexTemplate(df_agrupado, df_filtrado, clientes, meses) ==
    [status |-> "ok", template |-> "index.html",
     all_clients |-> AllClients(df_agrupado),
     meses_disponiveis |-> MesesDisponiveis(df_agrupado),
     selected_clients |-> OrAll(clientes, AllClients(df_agrupado)),
     selected_months |-> OrAll(meses, MesesDisponiveis(df_agrupado)),
     kpi_valor_variavel |-> SumOver(df_filtrado, "ValorVariavel"),
     kpi_valor_fixo |-> KpiValorFixo(df_filtrado),
     kpi_eventos |-> SumInt(df_filtrado, "QtdEventos"),
     kpi_registros |-> Len(df_filtrado),
     fig2 |-> build_fig2(df_filtrado)]

\* What index() returns and its local frames, from the result p of
\* prepare_dataframes: an exception there is caught and rendered as error.
IndexResult(p, clientes, meses) ==
    IF p.erro # None
    THEN [response |-> [status |-> "ok", template |-> "index.html", error |-> p.erro],
          locals |-> [erro |-> p.erro]]
    ELSE [response |-> IndexTemplate(p.rows, DfFiltrado(p.rows, clientes, meses),
                                     clientes, meses),
          locals |-> [erro |-> None, df_agrupado |-> p.rows,
                      df_filtrado |-> DfFiltrado(p.rows, clientes, meses)]]

\* The handler of GET /, as a whole.  `variavel` and `fixo` are the lists the
\* webhook returns under "variavel" and "fixo"; `clientes` and `meses` are
\* the query's "cliente" and "mes" values.  The line chart of build_fig1 is
\* not modelled (it reads df_filtrado and nothing reads it).
Index(variavel, fixo, clientes, meses) ==
    /\ pc = "idle"
    /\ request' = [route |-> "/", method |-> "GET",
                   data |-> [variavel |-> variavel, fixo |-> fixo],
                   args |-> [cliente |-> clientes, mes |-> meses]]
    /\ posts' = << >>
    /\ pc' = "done"
    /\ response' = IndexResult(prepare_dataframes(DataFrame(variavel), DataFrame(fixo)),
                               clientes, meses).response
    /\ locals' = IndexResult(prepare_dataframes(DataFrame(variavel), DataFrame(fixo)),
                             clientes, meses).locals

(***************************************************************************)
(* What the webhook returns                                                *)
(***************************************************************************)

\* Most records under "variavel" and under "fixo".
MaxVariavel == 2

MaxFixo == 2

Clientes == {"A", "B"}

Meses == {"Janeiro", "Fevereiro"}

ValoresVariaveis == { <<"1", "0", "0">>, <<"5", "0">> }

ValoresFixos == { <<"3", "0">>, <<"4", "0">> }

Registros == { "r1", None }

RegistrosVariavel ==
    { [ Cliente |-> c, Mes |-> m, ValorVariavel |-> v, Registro |-> g ] :
        c \in Clientes, m \in Meses, v \in ValoresVariaveis, g \in Registros }

RegistrosFixo ==
    { [ Cliente |-> c, ValorFixo |-> v ] : c \in Clientes, v \in ValoresFixos }

\* The sequences over S of length at most n.
SeqsUpTo(S, n) == UNION { [1..k -> S] : k \in 0..n }

\* GET / with any webhook data and any filter.
GetIndex ==
    /\ pc = "idle"
    /\ \E variavel \in SeqsUpTo(RegistrosVariavel, MaxVariavel),
          fixo \in SeqsUpTo(RegistrosFixo, MaxFixo),
          clientes \in SUBSET Clientes,
          meses \in SUBSET Meses :
            Index(variavel, fixo, clientes, meses)

(***************************************************************************)
(* Calls of parse_number, as prepare_dataframes makes them on every cell   *)
(* of "Valor Variavel" and "Valor Fixo".                                   *)
(***************************************************************************)

\* Longest text built from Alfabeto.
MaxLen == 4

\* Characters of the cells: digits, both separators, the sign, a blank and
\* a letter.
Alfabeto == {"1", "5", ".", ",", "-", " ", "R"}

\* Amounts as the sheets behind the webhook write them, and a missing cell.
Exemplos ==
    { <<"R", "$", " ", "2", ".", "5", "0", "0">>,
      <<"1", ".", "2", "3", "4", ",", "5", "6">>,
      <<"1", ",", "2", "3", "4", ".", "5", "6">>,
      <<"R", "$", " ", "1", ".", "2", "3", "4", ".", "5", "6", "7", ",", "8", "9">>,
      <<"-", "1", "2", ",", "5">>,
      <<"a", "b", "c">>,
      NoText }

Celulas == SeqsUpTo(Alfabeto, MaxLen) \cup Exemplos

\* One call parse_number(x); the value returned is kept in the response.
ParseNumber(x) ==
    /\ request' = [route |-> "parse_number", method |-> "call", x |-> x]
    /\ response' = [status |-> "ok", value |-> parse_number(x)]
    /\ posts' = << >>
    /\ locals' = NoLocals
    /\ pc' = "done"

CallParseNumber ==
    /\ pc = "idle"
    /\ \E x \in Celulas : ParseNumber(x)

(***************************************************************************)
(* normalize_status.  A text is a sequence of characters.  The characters  *)
(* outside ASCII are written by name: "c_cedilha" and "a_til" with their   *)
(* capitals "C_CEDILHA" and "A_TIL", "e_agudo", and the four colour        *)
(* markers "verde", "amarelo", "vermelho", "preto" (the green, yellow,     *)
(* red and black circles).                                                 *)
(***************************************************************************)

Maiusculas ==
    << "A", "B", "C", "D", "E", "F", "G", "H", "I", "J", "K", "L", "M",
       "N", "O", "P", "Q", "R", "S", "T", "U", "V", "W", "X", "Y", "Z",
       "C_CEDILHA", "A_TIL" >>

Minusculas ==
    << "a", "b", "c", "d", "e", "f", "g", "h", "i", "j", "k", "l", "m",
       "n", "o", "p", "q", "r", "s", "t", "u", "v", "w", "x", "y", "z",
       "c_cedilha", "a_til" >>

\* str.lower(): capitals become small letters, anything else stays.
Lower(s) ==
    [i \in 1..Len(s) |->
        IF \E k \in 1..Len(Maiusculas) : Maiusculas[k] = s[i]
        THEN Minusculas[CHOOSE k \in 1..Len(Maiusculas) : Maiusculas[k] = s[i]]
        ELSE s[i]]

\* 'k in s' for texts.
In(k, s) == \E i \in 0..(Len(s) - Len(k)) : SubSeq(s, i + 1, i + Len(k)) = k

\* The values returned.
SAFE == <<"S", "a", "f", "e">>

CARE == <<"C", "a", "r", "e">>

DANGER == <<"D", "a", "n", "g", "e", "r">>

AVISO_PREVIO == <<"A", "v", "i", "s", "o", " ", "P", "r", "e_agudo", "v", "i", "o">>

\* normalize_status with the keywords of Danger tested before the others.
normalize_status_danger_primeiro(s) ==
    IF s = NoText THEN AVISO_PREVIO
    ELSE LET s_lower == Lower(s)
         IN  IF \/ In(<<"d", "a", "n", "g", "e", "r">>, s_lower)
                \/ In(<<"r", "i", "s", "c", "o">>, s_lower)
                \/ In(<<"c", "h", "u", "r", "n">>, s_lower)
                \/ In(<<"vermelho">>, s_lower)
             THEN DANGER
             ELSE IF In(<<"s", "a", "f", "e">>, s_lower) \/ In(<<"verde">>, s_lower)
             THEN SAFE
             ELSE IF \/ In(<<"c", "a", "r", "e">>, s_lower)
                     \/ In(<<"a", "t", "e", "n", "c_cedilha", "a_til", "o">>, s_lower)
                     \/ In(<<"amarelo">>, s_lower)
             THEN CARE
             ELSE IF In(<<"a", "v", "i", "s", "o">>, s_lower) \/ In(<<"preto">>, s_lower)
             THEN AVISO_PREVIO
             ELSE Strip(s)

\* normalize_status(s): "Aviso Previo" for what is not a str; otherwise the
\* tests on s.lower() in the order of the source, then the three tests of
\* the markers on s itself, then s.strip().
normalize_status(s) ==
    IF s = NoText THEN AVISO_PREVIO
    ELSE LET s_lower == Lower(s)
         IN  IF In(<<"s", "a", "f", "e">>, s_lower) \/ In(<<"verde">>, s_lower)
             THEN SAFE
             ELSE IF \/ In(<<"c", "a", "r", "e">>, s_lower)
                     \/ In(<<"a", "t", "e", "n", "c_cedilha", "a_til", "o">>, s_lower)
                     \/ In(<<"amarelo">>, s_lower)
             THEN CARE
             ELSE IF \/ In(<<"d", "a", "n", "g", "e", "r">>, s_lower)
                     \/ In(<<"r", "i", "s", "c", "o">>, s_lower)
                     \/ In(<<"c", "h", "u", "r", "n">>, s_lower)
                     \/ In(<<"vermelho">>, s_lower)
             THEN DANGER
             ELSE IF In(<<"a", "v", "i", "s", "o">>, s_lower) \/ In(<<"preto">>, s_lower)
             THEN AVISO_PREVIO
             ELSE IF In(<<"verde">>, s) THEN SAFE
             ELSE IF In(<<"amarelo">>, s) THEN CARE
             ELSE IF In(<<"vermelho">>, s) THEN DANGER
             ELSE Strip(s)

(***************************************************************************)
(* Calls of normalize_status, as the status column is mapped through it.  *)
(***************************************************************************)

\* Most pieces in a label.
MaxPedacos == 3

\* What labels are made of: the keywords in some spelling, the markers,
\* halves of a keyword, a blank and other letters.
Pedacos ==
    { <<"S", "a", "f", "e">>, <<"C", "A", "R", "E">>,
      <<"A", "t", "e", "n", "C_CEDILHA", "A_TIL", "o">>,
      <<"D", "a", "n", "g", "e", "r">>, <<"R", "I", "S", "C", "O">>,
      <<"c", "h", "u", "r", "n">>, <<"A", "V", "i", "s", "o">>,
      <<"verde">>, <<"amarelo">>, <<"vermelho">>, <<"preto">>,
      <<" ">>, <<"O", "k">>, <<"s", "A">>, <<"F", "E">> }

\* The pieces of ps one after the other.
RECURSIVE Juntar(_)
Juntar(ps) == IF ps = << >> THEN << >> ELSE Head(ps) \o Juntar(Tail(ps))

\* Labels of the source and of the sheet, and a cell that is no text.
RotulosConhecidos ==
    { <<"preto", " ", " ">> \o AVISO_PREVIO,
      <<"vermelho", " ", "R", "i", "s", "c", "o", " ", "d", "e", " ", "c", "h", "u", "r", "n">>,
      <<" ", "P", "a", "u", "s", "a", "d", "o", " ">>,
      NoText }

\* One call normalize_status(s); the value returned is kept in the response.
NormalizeStatus(s) ==
    /\ request' = [route |-> "normalize_status", method |-> "call", s |-> s]
    /\ response' = [status |-> "ok", value |-> normalize_status(s)]
    /\ posts' = << >>
    /\ locals' = NoLocals
    /\ pc' = "done"

CallNormalizeStatus ==
    /\ pc = "idle"
    /\ \/ \E ps \in SeqsUpTo(Pedacos, MaxPedacos) : NormalizeStatus(Juntar(ps))
       \/ \E s \in RotulosConhecidos : NormalizeStatus(s)

(***************************************************************************)
(* Specifications                                                          *)
(***************************************************************************)

Init ==
    /\ pc = "idle"
    /\ request = [route |-> "none"]
    /\ response = NoResponse
    /\ posts = << >>
    /\ locals = NoLocals

NextClassificacao ==
    \/ PostClassificacao
    \/ ClassificacaoGet
    \/ Return

SpecClassificacao == Init /\ [][NextClassificacao]_vars

NextIndex ==
    \/ GetIndex
    \/ Return

SpecIndex == Init /\ [][NextIndex]_vars

NextParseNumber ==
    \/ CallParseNumber
    \/ Return

SpecParseNumber == Init /\ [][NextParseNumber]_vars

NextNormalizeStatus ==
    \/ CallNormalizeStatus
    \/ Return

SpecNormalizeStatus == Init /\ [][NextNormalizeStatus]_vars

Next ==
    \/ PostClassificacao
    \/ ClassificacaoGet
    \/ GetIndex
    \/ CallParseNumber
    \/ CallNormalizeStatus
    \/ Return

Spec == Init /\ [][Next]_vars

(***************************************************************************)
(* Properties of classificacao()                                           *)
(***************************************************************************)

\* A POST to /classificacao has been handled.
Posted ==
    /\ pc = "done"
    /\ request.route = "/classificacao"
    /\ request.method = "POST"

\* Some criterion is unanswered or carries a value outside its option list.
RespostaInvalida(form) ==
    \E c \in Criterios : form[c] \notin RangeOf(criterios[c])

\* The verdict the rubric's forced rules give, Step looked at before Ebitda;
\* None when neither answer is a forced option.
VeredictoForcado(form) ==
    IF form["Step"] = "V0" THEN "Nao Apto"
    ELSE IF form["Step"] = "V1" THEN "Revisar"
    ELSE IF form["Ebitda"] = "0% a 10%" THEN "Nao Apto"
    ELSE IF form["Ebitda"] = "11% a 20%" THEN "Revisar"
    ELSE None

\* The handler ended in an exception: nothing rendered, no verdict
\* registered.
Falhou ==
    /\ response.status = "error"
    /\ "resultado" \notin DOMAIN response
    /\ \A i \in 1..Len(posts) : posts[i].url # URL_REGISTRAR

\* Sum over the criteria S of f[c].
RECURSIVE Soma(_, _)
Soma(f, S) ==
    IF S = {} THEN 0
    ELSE LET c == CHOOSE x \in S : TRUE
         IN  f[c] + Soma(f, S \ {c})

\* raw_points of a valid answer set: index of the selected option * weight.
RawPoints(form) ==
    Soma([c \in Criterios |-> IndexOf(criterios[c], form[c]) * pesos[c]], Criterios)

\* max_possible_points: (number of options - 1) * weight.
MaxPossiblePoints ==
    Soma([c \in Criterios |-> (Len(criterios[c]) - 1) * pesos[c]], Criterios)

C2_StepV0NotApt ==
    (Posted /\ request.form["Step"] = "V0") =>
        /\ response.status = "ok"
        /\ response.resultado = "Nao Apto"
        /\ response.pontos = "Forcado por regra"
        /\ "pontuacao" \notin DOMAIN locals

\* C2 witness: Step V0 together with an Ebitda answer whose own forced
\* verdict is "Revisar".
C2_Witness ==
    /\ Posted
    /\ request.form["Step"] = "V0"
    /\ request.form["Ebitda"] = "11% a 20%"
    /\ response.resultado = "Nao Apto"

\* C3: a valid answer set without forced option gets Apto iff
\* 100*raw >= 70*max, Revisar iff 40*max <= 100*raw < 70*max, Nao Apto iff
\* 100*raw < 40*max, with max = 80.
C3_VerdictBands ==
    (Posted /\ ~RespostaInvalida(request.form)
            /\ VeredictoForcado(request.form) = None) =>
        LET raw == RawPoints(request.form)
            max == MaxPossiblePoints
        IN  /\ response.status = "ok"
            /\ response.pontos = raw
            /\ locals.pontos_maximos = max
            /\ max = 80
            /\ (response.resultado = "Apto") <=> (100 * raw >= 70 * max)
            /\ (response.resultado = "Revisar") <=>
                   (40 * max <= 100 * raw /\ 100 * raw < 70 * max)
            /\ (response.resultado = "Nao Apto") <=> (100 * raw < 40 * max)

\* C3 witness: a score exactly on the lower limit of the Apto band.
C3_Witness ==
    /\ Posted
    /\ ~RespostaInvalida(request.form)
    /\ VeredictoForcado(request.form) = None
    /\ 100 * RawPoints(request.form) = 70 * MaxPossiblePoints
    /\ response.resultado = "Apto"

\* Reachability of the other band edges (not a claim's formula).
C3_ReachesRevisarEdge ==
    /\ Posted
    /\ ~RespostaInvalida(request.form)
    /\ VeredictoForcado(request.form) = None
    /\ 100 * RawPoints(request.form) = 40 * MaxPossiblePoints
    /\ response.resultado = "Revisar"

\* The forced rules evaluated Ebitda first.
OrdemInvertida == << "Ebitda", "Step" >>

\* Both the Step and the Ebitda answer are forced options, with different
\* verdicts.
RegrasEmConflito(form) ==
    \/ form["Step"] = "V0" /\ form["Ebitda"] = "11% a 20%"
    \/ form["Step"] = "V1" /\ form["Ebitda"] = "0% a 10%"

\* C4 (as stated): for every valid answer set the verdict is the same with
\* Ebitda checked before Step.
C4_OrderIndependent ==
    (Posted /\ ~RespostaInvalida(request.form)) =>
        response.resultado = Classificar(request.form, OrdemInvertida).resultado

\* C4 (amended): the verdict is the same with Ebitda checked before Step,
\* except for (Step V0, Ebitda 11% a 20%) and (Step V1, Ebitda 0% a 10%):
\* there the program returns Step's verdict and the other order returns
\* Ebitda's, which differs.
C4_OrderIndependentUnlessConflict ==
    (Posted /\ ~RespostaInvalida(request.form)) =>
        LET outro == Classificar(request.form, OrdemInvertida).resultado
        IN  IF RegrasEmConflito(request.form)
            THEN /\ response.resultado =
                        (IF request.form["Step"] = "V0" THEN "Nao Apto" ELSE "Revisar")
                 /\ outro =
                        (IF request.form["Step"] = "V0" THEN "Revisar" ELSE "Nao Apto")
            ELSE response.resultado = outro

\* C4 witness: both answers are forced options with the same verdict.
C4_Witness ==
    /\ Posted
    /\ ~RespostaInvalida(request.form)
    /\ request.form["Step"] = "V1"
    /\ request.form["Ebitda"] = "11% a 20%"
    /\ response.resultado = "Revisar"

\* C5: all criteria at the lowest option and no forced rule: score 0 and
\* Nao Apto; all criteria at the highest option: score 100 and Apto.
C5_Extremes ==
    Posted =>
        /\ (request.form = PerfilBaixo /\ response.pontos # "Forcado por regra") =>
               /\ locals.pontuacao = FloatZero
               /\ response.resultado = "Nao Apto"
        /\ (request.form = PerfilAlto) =>
               /\ response.status = "ok"
               /\ locals.pontuacao = FloatOfInt(100)
               /\ response.resultado = "Apto"

\* C5 witness: the all-highest answer set was classified.
C5_Witness ==
    /\ Posted
    /\ request.form = PerfilAlto
    /\ response.resultado = "Apto"

\* The all-lowest answer set always meets the forced rule of Step "V0"
\* (not a claim's formula: it shows the first half of C5 has no instance in
\* this rubric).
C5_LowestIsForced ==
    (Posted /\ request.form = PerfilBaixo) =>
        /\ response.pontos = "Forcado por regra"
        /\ response.resultado = "Nao Apto"

(***************************************************************************)
(* Properties of index() and prepare_dataframes                            *)
(***************************************************************************)

\* A GET / has been handled.
Indexed == pc = "done" /\ request.route = "/"

\* ... and prepare_dataframes returned a table.
Aggregated == Indexed /\ locals.erro = None

\* The usage records of a (client, period) pair, in input order.
UsageOf(cliente, mes) ==
    LET Is(u) == u.Cliente = cliente /\ u.Mes = mes
    IN  SelectSeq(request.data.variavel, Is)

\* The fee records of a client, in input order.
FeesOf(cliente) ==
    LET Is(f) == f.Cliente = cliente
    IN  SelectSeq(request.data.fixo, Is)

\* The client's fixed fee: the parsed amount of its first fee record, 0
\* without one.
FixedFee(cliente) ==
    IF Len(FeesOf(cliente)) = 0 THEN Zero
    ELSE parse_number(FeesOf(cliente)[1].ValorFixo)

\* The rows of the aggregate for a (client, period) pair.
RowsFor(cliente, mes) ==
    {i \in 1..Len(locals.df_agrupado) :
        /\ locals.df_agrupado[i].Cliente = cliente
        /\ locals.df_agrupado[i].Mes = mes}

\* C6: the aggregate has exactly one row per (client, period) pair of the
\* usage records, and its fixed fee is the parsed amount of the client's
\* first fee record (stated for the runs in which prepare_dataframes
\* returns a table).
C6_OneRowPerPair ==
    Aggregated =>
        /\ \A k \in 1..Len(request.data.variavel) :
               LET u == request.data.variavel[k]
               IN  /\ Cardinality(RowsFor(u.Cliente, u.Mes)) = 1
                   /\ Len(FeesOf(u.Cliente)) > 0 =>
                         \A i \in RowsFor(u.Cliente, u.Mes) :
                             locals.df_agrupado[i].ValorFixo = FixedFee(u.Cliente)
        /\ \A i \in 1..Len(locals.df_agrupado) :
               Len(UsageOf(locals.df_agrupado[i].Cliente, locals.df_agrupado[i].Mes)) > 0

\* C7: the fixed-fee KPI and the "Valor Fixo" bar of each client count the
\* client's fixed fee once, however many periods the client has rows in.
C7_FixedFeeOnce ==
    Aggregated =>
        /\ \A j \in 1..Len(response.fig2.clientes) :
               response.fig2.valores_fixos[j] = FixedFee(response.fig2.clientes[j])
        /\ response.kpi_valor_fixo =
               SumSeq([j \in 1..Len(response.fig2.clientes) |->
                          FixedFee(response.fig2.clientes[j])])

\* The KPI half of C7 on its own, for inputs with at most one fee record per
\* client (not a claim's formula).
C7_KpiCountsOnce ==
    (Aggregated /\ \A c \in Clientes : Len(FeesOf(c)) <= 1) =>
        response.kpi_valor_fixo =
            SumSeq([j \in 1..Len(response.fig2.clientes) |->
                       FixedFee(response.fig2.clientes[j])])

\* C8: a client with usage records and no fee record keeps its rows, and
\* their fixed fee is the number 0.
C8_NoFeeIsZero ==
    Indexed =>
        \A k \in 1..Len(request.data.variavel) :
            LET u == request.data.variavel[k]
            IN  Len(FeesOf(u.Cliente)) = 0 =>
                    /\ locals.erro = None
                    /\ RowsFor(u.Cliente, u.Mes) # {}
                    /\ \A i \in RowsFor(u.Cliente, u.Mes) :
                           locals.df_agrupado[i].ValorFixo = Zero

\* C9: with no usage record the aggregate is empty and nothing is raised,
\* whatever the fee records.
C9_EmptyUsageEmptyResult ==
    (Indexed /\ request.data.variavel = << >>) =>
        /\ locals.erro = None
        /\ locals.df_agrupado = << >>
        /\ "error" \notin DOMAIN response

\* C10: in every row of the aggregate, event_count is the number of usage
\* records of the group (whatever their Registro), variable_total the sum
\* of their parsed amounts, and average_ticket their quotient, 0 when
\* event_count is 0.
C10_GroupTotals ==
    Aggregated =>
        \A i \in 1..Len(locals.df_agrupado) :
            LET r == locals.df_agrupado[i]
                g == UsageOf(r.Cliente, r.Mes)
            IN  /\ r.QtdEventos = Len(g)
                /\ r.ValorVariavel =
                       SumSeq([k \in 1..Len(g) |-> parse_number(g[k].ValorVariavel)])
                /\ r.TicketMedio =
                       (IF r.QtdEventos > 0
                        THEN RatDivInt(r.ValorVariavel, r.QtdEventos)
                        ELSE Zero)

\* The same with event_count as the code computes it, the number of records
\* of the group whose Registro is present (not a claim's formula).
C10_GroupTotalsCountingPresent ==
    Aggregated =>
        \A i \in 1..Len(locals.df_agrupado) :
            LET r == locals.df_agrupado[i]
                g == UsageOf(r.Cliente, r.Mes)
            IN  /\ r.QtdEventos = Cardinality({k \in 1..Len(g) : g[k].Registro # None})
                /\ r.ValorVariavel =
                       SumSeq([k \in 1..Len(g) |-> parse_number(g[k].ValorVariavel)])
                /\ r.TicketMedio =
                       (IF r.QtdEventos > 0
                        THEN RatDivInt(r.ValorVariavel, r.QtdEventos)
                        ELSE Zero)

(***************************************************************************)
(* Properties of parse_number                                              *)
(***************************************************************************)

\* parse_number(x) has returned.
Parsed == pc = "done" /\ request.route = "parse_number"

\* The characters an amount keeps.
RefKept == {"0", "1", "2", "3", "4", "5", "6", "7", "8", "9", ".", ",", "-"}

\* The text with every other character dropped.
RECURSIVE RefClean(_)
RefClean(x) ==
    IF x = << >> THEN << >>
    ELSE (IF Head(x) \in RefKept THEN <<Head(x)>> ELSE << >>) \o RefClean(Tail(x))

Positions(t, ch) == {i \in 1..Len(t) : t[i] = ch}

\* Exactly one "," and it lies after the last ".".
RefCommaIsDecimal(t) ==
    /\ Cardinality(Positions(t, ",")) = 1
    /\ \A i \in Positions(t, ",") : \A j \in Positions(t, ".") : j < i

\* The text without the characters at the positions in S.
RECURSIVE RefWithout(_, _, _)
RefWithout(t, S, i) ==
    IF i > Len(t) THEN << >>
    ELSE (IF i \in S THEN << >> ELSE <<t[i]>>) \o RefWithout(t, S, i + 1)

\* The separators settled: "," decimal and "." deleted, or "," deleted.
RefSettled(t) ==
    IF RefCommaIsDecimal(t)
    THEN LET u == RefWithout(t, Positions(t, "."), 1)
         IN  [i \in 1..Len(u) |-> IF u[i] = "," THEN "." ELSE u[i]]
    ELSE RefWithout(t, Positions(t, ","), 1)

\* A valid decimal number: an optional "-" in front, digits around at most
\* one ".", at least one digit.
RefValid(u) ==
    /\ \A i \in Positions(u, "-") : i = 1
    /\ Cardinality(Positions(u, ".")) <= 1
    /\ \E i \in 1..Len(u) : u[i] \notin {".", "-"}

\* Where the "." stands, one past the end without one.
RefPoint(u) ==
    IF Positions(u, ".") = {} THEN Len(u) + 1
    ELSE CHOOSE i \in Positions(u, ".") : TRUE

\* How many digits follow the ".".
RefDecimals(u) == IF RefPoint(u) > Len(u) THEN 0 ELSE Len(u) - RefPoint(u)

\* The digits from position i on, each weighing its power of ten, in units
\* of the last decimal.
RECURSIVE RefUnits(_, _)
RefUnits(u, i) ==
    IF i > Len(u) THEN 0
    ELSE RefUnits(u, i + 1) +
         (IF u[i] \in {".", "-"} THEN 0
          ELSE IF i < RefPoint(u)
               THEN DigitVal(u[i]) * Pow10(RefPoint(u) - 1 - i + RefDecimals(u))
               ELSE DigitVal(u[i]) * Pow10(Len(u) - i))

\* The decimal value of a valid decimal number.
RefValue(u) ==
    Rat(IF Positions(u, "-") = {} THEN RefUnits(u, 1) ELSE -RefUnits(u, 1),
        Pow10(RefDecimals(u)))

\* The reference: 0.0 for a missing input and for a text that is no valid
\* decimal number once cleaned and settled, its decimal value otherwise.
parse_amount(raw) ==
    IF raw = NoText THEN Zero
    ELSE IF RefValid(RefSettled(RefClean(raw))) THEN RefValue(RefSettled(RefClean(raw)))
    ELSE Zero

\* C11: parse_number never raises and returns, for every text and for a
\* missing input, what the reference parse_amount gives: other characters
\* than digits, ".", "," and "-" dropped; a single "," after the last "."
\* read as the decimal point and every "." deleted, any other ","
\* deleted; the decimal value, or 0.0 when there is none.
C11_ParseNumberIsReference ==
    Parsed =>
        /\ response.status = "ok"
        /\ response.value = parse_amount(request.x)

\* A text with thousands "." and a decimal "," was parsed to its value,
\* 1234567.89.
C11_Witness ==
    /\ Parsed
    /\ request.x # NoText
    /\ Cardinality(Positions(request.x, ".")) = 2
    /\ RefCommaIsDecimal(RefClean(request.x))
    /\ response.value = Rat(123456789, 100)

\* A text with "," and no "." was parsed with "," as the decimal point.
C11_CommaAloneIsDecimal ==
    /\ Parsed
    /\ request.x = <<"1", ",", "5">>
    /\ response.value = Rat(3, 2)

\* The amount "R$ 2.500".
DoisMilEQuinhentos == <<"R", "$", " ", "2", ".", "5", "0", "0">>

\* C12: parse_number("R$ 2.500") returns 2500.0, the "." read as a
\* thousands separator.
C12_PointIsThousands ==
    (Parsed /\ request.x = DoisMilEQuinhentos) => response.value = Rat(2500, 1)

\* What parse_number("R$ 2.500") returns is 2.5 (not a claim's formula).
C12_PointIsDecimal ==
    (Parsed /\ request.x = DoisMilEQuinhentos) => response.value = Rat(5, 2)

(***************************************************************************)
(* Properties of normalize_status                                          *)
(***************************************************************************)

\* normalize_status(s) has returned.
Normalized == pc = "done" /\ request.route = "normalize_status"

\* The keyword groups in their order, each with its category.
Grupos ==
    << [categoria |-> SAFE,
        palavras  |-> { <<"s", "a", "f", "e">>, <<"verde">> }],
       [categoria |-> CARE,
        palavras  |-> { <<"c", "a", "r", "e">>,
                        <<"a", "t", "e", "n", "c_cedilha", "a_til", "o">>,
                        <<"amarelo">> }],
       [categoria |-> DANGER,
        palavras  |-> { <<"d", "a", "n", "g", "e", "r">>, <<"r", "i", "s", "c", "o">>,
                        <<"c", "h", "u", "r", "n">>, <<"vermelho">> }],
       [categoria |-> AVISO_PREVIO,
        palavras  |-> { <<"a", "v", "i", "s", "o">>, <<"preto">> }] >>

\* The same character, whatever its case.
SameLetter(a, b) ==
    \/ a = b
    \/ \E k \in 1..Len(Maiusculas) : {a, b} = {Maiusculas[k], Minusculas[k]}

\* The keyword stands somewhere in the label, whatever the case.
Occurs(palavra, s) ==
    \E i \in 1..Len(s) :
        /\ i + Len(palavra) - 1 <= Len(s)
        /\ \A j \in 1..Len(palavra) : SameLetter(s[i + j - 1], palavra[j])

Matches(g, s) == \E palavra \in Grupos[g].palavras : Occurs(palavra, s)

\* The label without its leading and trailing blanks.
Trimmed(s) ==
    LET solid == {i \in 1..Len(s) : s[i] # " "}
    IN  IF solid = {} THEN << >>
        ELSE SubSeq(s, CHOOSE i \in solid : \A j \in solid : i <= j,
                       CHOOSE i \in solid : \A j \in solid : j <= i)

\* What the contract gives for an input.
CanonicalStatus(raw) ==
    IF raw = NoText THEN AVISO_PREVIO
    ELSE IF \E g \in 1..Len(Grupos) : Matches(g, raw)
    THEN Grupos[CHOOSE g \in 1..Len(Grupos) :
                    Matches(g, raw) /\ \A h \in 1..(g - 1) : ~Matches(h, raw)].categoria
    ELSE Trimmed(raw)

\* C13: normalize_status returns the category of the first keyword group,
\* in the order Safe, Care, Danger, Aviso Previo, of which a keyword or the
\* marker stands in the label whatever the case; Aviso Previo for an input
\* that is no text; and the label trimmed, otherwise unchanged, when no
\* group matches.
C13_FirstGroupWins ==
    Normalized => response.value = CanonicalStatus(request.s)

\* A label with keywords of Danger and then of Safe was given Safe.
C13_Witness ==
    /\ Normalized
    /\ request.s # NoText
    /\ Matches(1, request.s)
    /\ Matches(3, request.s)
    /\ \E i \in 1..Len(request.s) :
          /\ Occurs(<<"c", "h", "u", "r", "n">>, SubSeq(request.s, 1, i))
          /\ ~Matches(1, SubSeq(request.s, 1, i))
    /\ response.value = SAFE

\* A label matching no group came back trimmed, in its own case.
C13_UnknownIsTrimmed ==
    /\ Normalized
    /\ request.s = <<" ", "P", "a", "u", "s", "a", "d", "o", " ">>
    /\ response.value = <<"P", "a", "u", "s", "a", "d", "o">>

\* A keyword spelt across two pieces in mixed case was found.
C13_MixedCaseFound ==
    /\ Normalized
    /\ request.s = <<"s", "A", "F", "E">>
    /\ response.value = SAFE

(***************************************************************************)
(* The webhook requests of a POST to /classificacao                        *)
(***************************************************************************)

\* The requests sent to a webhook while the POST was handled.
SentTo(url) == {i \in 1..Len(posts) : posts[i].url = url}

\* C14: in every handling of a POST to /classificacao the analysis request
\* is the first request sent, with the answers as submitted, also when an
\* answer then turns out invalid; when a verdict is returned, by forced
\* rule or by score, exactly one registration request was sent, after the
\* analysis request, with the answers and that verdict as "resultado"; and
\* when the handler aborts on a missing or unlisted answer, no
\* registration request was sent and the analysis request was.
C14_WebhookOrder ==
    Posted =>
        /\ SentTo(URL_ANALISE) = {1}
        /\ posts[1].json = request.form
        /\ response.status = "ok" =>
              /\ SentTo(URL_REGISTRAR) = {2}
              /\ Len(posts) = 2
              /\ posts[2].json["resultado"] = response.resultado
              /\ \A k \in DOMAIN request.form : posts[2].json[k] = request.form[k]
        /\ response.status # "ok" =>
              /\ SentTo(URL_REGISTRAR) = {}
              /\ Len(posts) = 1
        /\ (RespostaInvalida(request.form) /\ VeredictoForcado(request.form) = None) =>
              response.status = "error"

\* The handler aborted on an invalid answer after the analysis request.
C14_Witness ==
    /\ Posted
    /\ RespostaInvalida(request.form)
    /\ response.status = "error"
    /\ SentTo(URL_ANALISE) = {1}
    /\ SentTo(URL_REGISTRAR) = {}

\* A verdict by forced rule was registered after the analysis request.
C14_RegisteredByRule ==
    /\ Posted
    /\ response.status = "ok"
    /\ DOMAIN locals = {"resultado"}
    /\ posts[2].url = URL_REGISTRAR
    /\ posts[2].json["resultado"] = "Revisar"

\* A verdict by score was registered after the analysis request.
C14_RegisteredByScore ==
    /\ Posted
    /\ response.status = "ok"
    /\ "pontuacao" \in DOMAIN locals
    /\ posts[2].url = URL_REGISTRAR
    /\ posts[2].json["resultado"] = "Apto"

====
